---- MODULE Spec2Model ----
(***************************************************************************)
(* Model of the SmartNode acquisition engine (src/utility/utils.py,        *)
(* src/main.py): Controller.get_data and LCD.monitor as two asyncio tasks  *)
(* sharing one asyncio.Lock, the sensor classes' accumulators, the median  *)
(* reduction, the compensation reordering and the scheduler arithmetic.    *)
(*                                                                         *)
(* asyncio is cooperative: a task runs until it suspends (asyncio.sleep,   *)
(* a contended Lock.acquire).  time.sleep does not suspend.  Every action  *)
(* of a task is therefore enabled only while the other task is suspended.  *)
(*                                                                         *)
(* UV_LTR390 is left out: its constructor raises NameError (utils.py:536)  *)
(* and src/main.py does not list it, so it is never an active sensor.      *)
(***************************************************************************)
EXTENDS Integers, Sequences, FiniteSets, TLC

VARIABLES
    pc,                       \* position of each task
    locked, waiters, woken,   \* asyncio.Lock: _locked, _waiters, futures with a result
    holds,                    \* tasks inside their "async with self.__i2c_lock" block
    current_objects,          \* Controller.__current_objects (list of sensor kinds)
    sensors,                  \* per sensor object: its private data dict (attribute -> slot)
    temperature_compensation, \* CO2_ENS160.temperature_compensation
    humidity_compensation,    \* CO2_ENS160.humidity_compensation
    aht21_exists, co2_exists, \* locals of _gather_sensor_data
    aht21_temperature,        \* local of _gather_sensor_data (UNBOUND until assigned)
    aht21_humidity,           \* local of _gather_sensor_data (UNBOUND until assigned)
    round, pos,               \* loop counters of _gather_sensor_data / get_data
    sensor_data,              \* local dict of get_data: the Snapshot being assembled
    last_data,                \* Controller.__last_data
    now,                      \* wall clock read by _calc_next_reading: <<minute, second>>
    next_reading,             \* local of get_data: the computed wait
    exception,                \* exception that ended the acquisition task ("none" if running)
    cycle,                    \* number of acquisition cycles started
    busOp,                    \* task that touched the I2C bus in the last step ("none")
    lcd_last_data,            \* LCD.__last_data
    lcdPages, lcdAttrLeft,    \* LCD: sensors still to display, attributes left of the current
    ahtFirst,                 \* history: first hardware sample of TEMP_AHT21 in this cycle
    failedThisCycle,          \* history: sensors that reached package() this cycle with a
                              \* key not holding exactly NUM_READINGS samples
    data_list, median,        \* argument and result of a find_median_data call
    packaged,                 \* result of a sensor's package() call
    co2_script,               \* history: what the ENS160 returned (would return) on the
                              \* successive attempts for each key in the last collection
    co2_before,               \* history: the CO2 data dict before the last collection
    co2_reads,                \* history: hardware reads made for each key in the last
                              \* collection (in key order)
    created_objects,          \* history: the list as _create_objects returned it
    previous_call             \* history: <<clock, wait>> of the _calc_next_reading call
                              \* of the cycle before (<<>> when there is none)

vars == <<pc, locked, waiters, woken, holds, current_objects, sensors,
          temperature_compensation, humidity_compensation, aht21_exists, co2_exists,
          aht21_temperature, aht21_humidity, round, pos, sensor_data, last_data, now,
          next_reading, exception, cycle, busOp, lcd_last_data, lcdPages, lcdAttrLeft,
          ahtFirst, failedThisCycle, data_list, median, packaged,
          co2_script, co2_before, co2_reads, created_objects, previous_call>>

(***************************************************************************)
(* Configuration (src/utility/config.py) and class constants.              *)
(***************************************************************************)
\* config.NUM_READINGS is 10 in the source; the model runs it at a small value.
NUM_READINGS == 2
\* config.CO2_ATTEMPTS is 5 in the source; the model runs it at a small value.
CO2_ATTEMPTS == 2
NODE == 69
STAGGER_INTERVAL == 20
DEFAULT_TEMPERATURE == 25
DEFAULT_HUMIDITY == 50

\* Bounds of the model.
MaxCycles == 2
MaxVal == 3

UNBOUND == -1

Tasks == {"ctl", "lcd"}
Other(t) == IF t = "ctl" THEN "lcd" ELSE "ctl"

Kinds == {"Camera", "RGB_TCS34725", "IR_MLX90614", "TEMP_AHT21", "CO2_ENS160"}

\* Keys of each sensor's data dict, in insertion order (reset_sensor_data).
Keys(kind) ==
    CASE kind = "TEMP_AHT21"   -> <<"temperature", "relative_humidity">>
      [] kind = "CO2_ENS160"   -> <<"AQI", "TVOC", "eCO2">>
      [] kind = "RGB_TCS34725" -> <<"color", "color_temperature", "lux", "color_rgb_bytes">>
      [] kind = "IR_MLX90614"  -> <<"ambient_temperature", "object_temperature">>
      [] OTHER                 -> <<>>

Range(s) == {s[i] : i \in 1..Len(s)}
KeySet(kind) == Range(Keys(kind))
IndexIn(s, x) == CHOOSE i \in 1..Len(s) : s[i] = x

\* The sensor map of src/main.py and the other sensor sets the model is run on.
MainOrder == <<"Camera", "RGB_TCS34725", "IR_MLX90614", "TEMP_AHT21", "CO2_ENS160">>
InitialOrders ==
    { MainOrder,
      <<"CO2_ENS160", "TEMP_AHT21">>,
      <<"CO2_ENS160", "IR_MLX90614", "TEMP_AHT21">>,
      <<"Camera", "CO2_ENS160">>,
      <<"TEMP_AHT21", "IR_MLX90614">> }

(***************************************************************************)
(* Values held under a key of a sensor's data dict: the accumulator list,  *)
(* or (after _read) the reduced value or None.                             *)
(***************************************************************************)
ListSlot(s) == [kind |-> "list", list |-> s, val |-> 0]
ValueSlot(v) == [kind |-> "value", list |-> <<>>, val |-> v]
NoneSlot == [kind |-> "none", list |-> <<>>, val |-> 0]

\* Python truthiness of a slot.
Truthy(slot) ==
    CASE slot.kind = "list"  -> Len(slot.list) > 0
      [] slot.kind = "value" -> slot.val # 0
      [] OTHER               -> FALSE

\* reset_sensor_data: every key holds an empty list.
reset_sensor_data(kind) == [k \in KeySet(kind) |-> ListSlot(<<>>)]

Sorted(s) == SortSeq(s, LAMBDA a, b : a < b)

\* find_median_data raises TypeError on len() of a number.
find_median_raises(slot) == slot.kind = "value" /\ slot.val # 0

\* Faulty variant of find_median_data: the lower of the two central values.
find_median_data_Lower(slot) ==
    IF slot.kind = "list" /\ Len(slot.list) > 0 /\ Len(slot.list) = NUM_READINGS
    THEN ValueSlot(Sorted(slot.list)[((Len(slot.list) - 1) \div 2) + 1])
    ELSE NoneSlot

\* find_median_data: the element at index int(len/2) of the sorted list when the
\* list is non-empty and holds exactly NUM_READINGS values, None otherwise.
find_median_data(slot) ==
    IF slot.kind = "list" /\ Len(slot.list) > 0 /\ Len(slot.list) = NUM_READINGS
    THEN ValueSlot(Sorted(slot.list)[(Len(slot.list) \div 2) + 1])
    ELSE NoneSlot

(***************************************************************************)
(* Sensor classes.                                                         *)
(***************************************************************************)
EmptyDict == [k \in {} |-> NoneSlot]

\* The body of a sensor's _read: each key in turn is replaced by its reduction;
\* an exception of find_median_data leaves the later keys untouched.
RECURSIVE read_keys(_, _, _)
read_keys(d, keys, i) ==
    IF i > Len(keys) THEN [raised |-> FALSE, data |-> d]
    ELSE IF find_median_raises(d[keys[i]]) THEN [raised |-> TRUE, data |-> d]
    ELSE read_keys([d EXCEPT ![keys[i]] = find_median_data(@)], keys, i + 1)

\* Faulty variant of _read: the accumulators are left in place, not reduced.
_read_NoReduce(kind, d) == [raised |-> FALSE, data |-> d]

\* <Sensor>._read: True unless a RuntimeError is caught; a TypeError propagates.
_read(kind, d) == read_keys(d, Keys(kind), 1)

\* Faulty variant of package_accepts: CO2_ENS160 packaged without the all() test.
package_accepts_NoTruthCheck(kind, d) == TRUE

\* Faulty variant of package_accepts: any() in the place of all().
package_accepts_Any(kind, d) ==
    kind = "CO2_ENS160" => \E k \in KeySet(kind) : Truthy(d[k])

\* The condition of package() besides _read: CO2_ENS160 also needs every key truthy.
package_accepts(kind, d) ==
    kind = "CO2_ENS160" => \A k \in KeySet(kind) : Truthy(d[k])

WithNode(d) ==
    [k \in (DOMAIN d) \cup {"Node"} |-> IF k = "Node" THEN ValueSlot(NODE) ELSE d[k]]

\* <Sensor>.package: the Reading (the data dict with the node id) or None.
package(kind, d) ==
    LET r == _read(kind, d) IN
    IF r.raised THEN [raised |-> TRUE, isNone |-> TRUE, reading |-> EmptyDict, data |-> r.data]
    ELSE IF package_accepts(kind, r.data)
    THEN [raised |-> FALSE, isNone |-> FALSE, reading |-> WithNode(r.data),
          data |-> WithNode(r.data)]
    ELSE [raised |-> FALSE, isNone |-> TRUE, reading |-> EmptyDict, data |-> r.data]

\* list.append on the value under a key: AttributeError unless it is a list.
RECURSIVE append_keys(_, _, _, _)
append_keys(d, keys, hw, i) ==
    IF i > Len(keys) THEN [raised |-> FALSE, data |-> d]
    ELSE IF d[keys[i]].kind # "list" THEN [raised |-> TRUE, data |-> d]
    ELSE append_keys([d EXCEPT ![keys[i]] = ListSlot(Append(@.list, hw[keys[i]]))],
                     keys, hw, i + 1)

\* TEMP_AHT21 / RGB_TCS34725 / IR_MLX90614 .collect_data_for_median: one hardware
\* value (hw[key]) is appended under every key.
collect_data_for_median(kind, d, hw) == append_keys(d, Keys(kind), hw, 1)

\* Index of the first non-zero reading among the CO2_ATTEMPTS attempts for one
\* key; 0 when every attempt read zero.
FirstNonZero(script) ==
    IF \E i \in 1..CO2_ATTEMPTS : script[i] # 0
    THEN CHOOSE i \in 1..CO2_ATTEMPTS :
            script[i] # 0 /\ \A j \in 1..(i - 1) : script[j] = 0
    ELSE 0

\* Faulty variant of co2_attempts: the loop does not stop at the first non-zero
\* reading, every non-zero reading of the attempts is appended.
RECURSIVE co2_attempts_NoBreak(_, _, _)
co2_attempts_NoBreak(slot, readings, i) ==
    IF i > CO2_ATTEMPTS THEN [raised |-> FALSE, slot |-> slot, reads |-> i - 1]
    ELSE IF readings[i] = 0 THEN co2_attempts_NoBreak(slot, readings, i + 1)
    ELSE IF slot.kind # "list" THEN [raised |-> TRUE, slot |-> slot, reads |-> i]
    ELSE co2_attempts_NoBreak(ListSlot(Append(slot.list, readings[i])), readings, i + 1)

\* The attempt loop for one key (lines 437-446): a zero reading is followed by
\* time.sleep and the next attempt; a non-zero reading is appended and ends the
\* loop; when the attempts run out nothing is appended.  reads counts the
\* hardware reads made.
RECURSIVE co2_attempts(_, _, _)
co2_attempts(slot, readings, i) ==
    IF i > CO2_ATTEMPTS THEN [raised |-> FALSE, slot |-> slot, reads |-> i - 1]
    ELSE IF readings[i] = 0 THEN co2_attempts(slot, readings, i + 1)
    ELSE IF slot.kind # "list" THEN [raised |-> TRUE, slot |-> slot, reads |-> i]
    ELSE [raised |-> FALSE, slot |-> ListSlot(Append(slot.list, readings[i])), reads |-> i]

\* CO2_ENS160.collect_data_for_median: script[key] is what the hardware returns on
\* the successive attempts for that key.
RECURSIVE co2_collect_keys(_, _, _, _)
co2_collect_keys(d, keys, script, i) ==
    IF i > Len(keys) THEN [raised |-> FALSE, data |-> d, reads |-> <<>>]
    ELSE LET a == co2_attempts(d[keys[i]], script[keys[i]], 1) IN
         IF a.raised THEN [raised |-> TRUE, data |-> d, reads |-> <<a.reads>>]
         ELSE LET rest == co2_collect_keys([d EXCEPT ![keys[i]] = a.slot],
                                           keys, script, i + 1)
              IN [raised |-> rest.raised, data |-> rest.data,
                  reads |-> <<a.reads>> \o rest.reads]

co2_collect_data_for_median(d, script) == co2_collect_keys(d, Keys("CO2_ENS160"), script, 1)

\* TEMP_AHT21.get_temperature: element 0 of the accumulator, 25 when it is falsy.
get_temperature(d) ==
    LET temp == d["temperature"].list[1]
    IN IF temp # 0 THEN temp ELSE DEFAULT_TEMPERATURE

\* TEMP_AHT21.get_humidity: element 0 of the accumulator, 50 when it is falsy.
get_humidity(d) ==
    LET humidity == d["relative_humidity"].list[1]
    IN IF humidity # 0 THEN humidity ELSE DEFAULT_HUMIDITY

(***************************************************************************)
(* Hardware: the values a read of a sensor attribute can return.           *)
(***************************************************************************)
\* TEMP_AHT21 samples: a (temperature, relative_humidity) pair; the other
\* sensors' attributes read one fixed value.
HwSamples(kind) ==
    IF kind = "TEMP_AHT21"
    THEN { [k \in KeySet(kind) |-> IF k = "temperature" THEN th[1] ELSE th[2]] :
              th \in {<<0, 0>>, <<20, 40>>, <<30, 60>>} }
    ELSE { [k \in KeySet(kind) |-> 5] }

\* The ENS160 reads zero for the first z attempts of a collection, then 7.
ZeroThen(z) == [i \in 1..CO2_ATTEMPTS |-> IF i <= z THEN 0 ELSE 7]

\* Zero attempts per key (AQI, TVOC, eCO2) of one collection: none, one retry on
\* AQI, AQI exhausted, eCO2 exhausted, every key exhausted.
Co2ZeroPatterns ==
    { <<0, 0, 0>>, <<1, 0, 0>>, <<CO2_ATTEMPTS, 0, 0>>, <<0, 0, CO2_ATTEMPTS>>,
      <<CO2_ATTEMPTS, CO2_ATTEMPTS, CO2_ATTEMPTS>> }
Co2Scripts ==
    { [k \in KeySet("CO2_ENS160") |->
          ZeroThen(z[IndexIn(Keys("CO2_ENS160"), k)])] : z \in Co2ZeroPatterns }

(***************************************************************************)
(* Controller helpers.                                                     *)
(***************************************************************************)
\* list.index: position of the first occurrence (0 when absent).
IndexOf(objs, kind) ==
    IF \E i \in 1..Len(objs) : objs[i] = kind
    THEN CHOOSE i \in 1..Len(objs) : objs[i] = kind /\ \A j \in 1..(i - 1) : objs[j] # kind
    ELSE 0

\* list.pop(i) followed by list.append of the popped element.
MoveToEnd(objs, i) ==
    [j \in 1..Len(objs) |-> IF j < i THEN objs[j]
                            ELSE IF j < Len(objs) THEN objs[j + 1] ELSE objs[i]]

\* Faulty variant of reorder: the list is left as it is.
reorder_Never(objs) == objs

\* Faulty variant of reorder: the CO2 sensor and the temperature sensor swap places.
reorder_Swap(objs) ==
    LET aht21_index == IndexOf(objs, "TEMP_AHT21")
        co2_index == IndexOf(objs, "CO2_ENS160")
    IN IF aht21_index # 0 /\ co2_index # 0 /\ co2_index < aht21_index
       THEN [objs EXCEPT ![co2_index] = "TEMP_AHT21", ![aht21_index] = "CO2_ENS160"]
       ELSE objs

\* _gather_sensor_data, lines 125-127: the CO2 sensor moves to the end of the
\* list when both sensors exist and it precedes the temperature sensor.
reorder(objs) ==
    LET aht21_index == IndexOf(objs, "TEMP_AHT21")
        co2_index == IndexOf(objs, "CO2_ENS160")
    IN IF aht21_index # 0 /\ co2_index # 0 /\ co2_index < aht21_index
       THEN MoveToEnd(objs, co2_index)
       ELSE objs

\* Faulty variant of _calc_next_reading: the minute is not reduced modulo the
\* stagger interval.
_calc_next_reading_NoModulo(clock) ==
    LET minutes_next == STAGGER_INTERVAL - clock[1]
    IN (minutes_next * 60) + clock[2]

\* Controller._calc_next_reading on the wall clock <<minute, second>>.
_calc_next_reading(clock) ==
    LET minutes_next == STAGGER_INTERVAL - (clock[1] % STAGGER_INTERVAL)
    IN (minutes_next * 60) + clock[2]

ClockSamples == {<<47, 30>>, <<0, 0>>}

\* The Snapshot dict: keys in insertion order, and the Reading under each key.
EmptySnapshot == [isNone |-> FALSE, order |-> <<>>, data |-> EmptyDict]
NoSnapshot == [isNone |-> TRUE, order |-> <<>>, data |-> EmptyDict]

\* dict.update with one Reading.
Update(snap, kind, reading) ==
    [isNone |-> FALSE,
     order |-> IF kind \in Range(snap.order) THEN snap.order ELSE Append(snap.order, kind),
     data |-> [k \in (DOMAIN snap.data) \cup {kind} |->
                  IF k = kind THEN reading ELSE snap.data[k]]]

(***************************************************************************)
(* asyncio.Lock shared by the two tasks (src/main.py, line 19).            *)
(***************************************************************************)
\* Faulty variant of CanAcquire: the lock is entered whatever its state.
CanAcquire_Always == TRUE

\* Lock.acquire returns at once when the lock is free and nobody waits for it.
CanAcquire == ~locked /\ waiters = <<>>

\* Labels at which a task is suspended in the event loop (or not running).
SuspendLabels ==
    {"start", "sleep", "wait_lock", "camera_sleep", "crashed",
     "refresh", "row_sleep", "page_sleep", "msg_sleep", "cancelled"}
Suspended(t) == pc[t] \in SuspendLabels

RemoveFrom(q, t) == SelectSeq(q, LAMBDA x : x # t)

\* Lock.release (the exit of "async with"): the first waiter's future gets a result.
Release(t) ==
    /\ locked' = FALSE
    /\ holds' = [holds EXCEPT ![t] = FALSE]
    /\ woken' = IF waiters # <<>> THEN woken \cup {Head(waiters)} ELSE woken
    /\ UNCHANGED waiters

\* Lock.acquire by a task that is not waiting: take the lock, or queue and suspend.
Acquire(t, entered) ==
    IF CanAcquire
    THEN /\ locked' = TRUE
         /\ holds' = [holds EXCEPT ![t] = TRUE]
         /\ pc' = [pc EXCEPT ![t] = entered]
         /\ UNCHANGED <<waiters, woken>>
    ELSE /\ waiters' = Append(waiters, t)
         /\ pc' = [pc EXCEPT ![t] = "wait_lock"]
         /\ UNCHANGED <<locked, holds, woken>>

\* The rest of Lock.acquire in a waiter whose future got a result.
Resume(t, entered) ==
    /\ pc[t] = "wait_lock"
    /\ t \in woken
    /\ waiters' = RemoveFrom(waiters, t)
    /\ woken' = woken \ {t}
    /\ locked' = TRUE
    /\ holds' = [holds EXCEPT ![t] = TRUE]
    /\ pc' = [pc EXCEPT ![t] = entered]

retryVars == <<co2_script, co2_before, co2_reads>>
pureVars == <<data_list, median, packaged, now, retryVars, created_objects,
              previous_call>>
lockVars == <<locked, waiters, woken, holds>>
lcdVars == <<lcd_last_data, lcdPages, lcdAttrLeft>>
gatherLocals == <<aht21_exists, co2_exists, aht21_temperature, aht21_humidity>>
compVars == <<temperature_compensation, humidity_compensation>>

(***************************************************************************)
(* Initial state: main() has built the Controller and the LCD and created  *)
(* the two tasks; neither has run yet.                                     *)
(***************************************************************************)
InitObjects(order) ==
    /\ current_objects = order
    /\ created_objects = order
    /\ previous_call = <<>>
    /\ sensors = [k \in Range(order) \ {"Camera"} |-> reset_sensor_data(k)]

InitCommon ==
    /\ locked = FALSE
    /\ waiters = <<>>
    /\ woken = {}
    /\ holds = [t \in Tasks |-> FALSE]
    /\ temperature_compensation = DEFAULT_TEMPERATURE
    /\ humidity_compensation = DEFAULT_HUMIDITY
    /\ aht21_exists = FALSE
    /\ co2_exists = FALSE
    /\ aht21_temperature = UNBOUND
    /\ aht21_humidity = UNBOUND
    /\ round = 0
    /\ pos = 1
    /\ sensor_data = EmptySnapshot
    /\ last_data = NoSnapshot
    /\ next_reading = UNBOUND
    /\ exception = "none"
    /\ cycle = 0
    /\ busOp = "none"
    /\ lcd_last_data = NoSnapshot
    /\ lcdPages = <<>>
    /\ lcdAttrLeft = 0
    /\ ahtFirst = <<>>
    /\ failedThisCycle = {}

\* No CO2 collection has been made.
InitRetry ==
    /\ co2_script = [k \in KeySet("CO2_ENS160") |-> <<>>]
    /\ co2_before = reset_sensor_data("CO2_ENS160")
    /\ co2_reads = <<>>

InitPure ==
    /\ data_list = NoneSlot
    /\ median = NoneSlot
    /\ packaged = NoSnapshot
    /\ now = <<0, 0>>
    /\ InitRetry

Init ==
    /\ pc = [t \in Tasks |-> "start"]
    /\ InitCommon
    /\ InitPure
    /\ \E order \in InitialOrders : InitObjects(order)

(***************************************************************************)
(* Controller.get_data                                                     *)
(***************************************************************************)
\* "async with self.__i2c_lock" at the top of the loop (first entry, or after
\* asyncio.sleep(next_reading) returned).
CtlAcquire ==
    /\ pc["ctl"] \in {"start", "sleep"}
    /\ Suspended("lcd")
    /\ cycle < MaxCycles
    /\ Acquire("ctl", "gather")
    /\ busOp' = "none"
    /\ UNCHANGED <<current_objects, sensors, compVars, gatherLocals, round, pos,
                   sensor_data, last_data, next_reading, exception, cycle, lcdVars,
                   ahtFirst, failedThisCycle, pureVars>>

CtlResume ==
    /\ Suspended("lcd")
    /\ Resume("ctl", "gather")
    /\ busOp' = "none"
    /\ UNCHANGED <<current_objects, sensors, compVars, gatherLocals, round, pos,
                   sensor_data, last_data, next_reading, exception, cycle, lcdVars,
                   ahtFirst, failedThisCycle, pureVars>>

\* Faulty variant of Crash: the exception ends the task with the lock still held.
Crash_KeepLock(exc) ==
    /\ pc' = [pc EXCEPT !["ctl"] = "crashed"]
    /\ exception' = exc
    /\ UNCHANGED lockVars
    /\ busOp' = "none"

\* The exception leaves get_data through "async with" (lock released) and ends the task.
Crash(exc) ==
    /\ pc' = [pc EXCEPT !["ctl"] = "crashed"]
    /\ exception' = exc
    /\ Release("ctl")
    /\ busOp' = "none"

\* Start of the sampling rounds: the list is reordered and the locals are set.
BeginRounds ==
    /\ current_objects' = reorder(current_objects)
    /\ round' = 0
    /\ pos' = 1
    /\ pc' = [pc EXCEPT !["ctl"] = "collect"]

\* _gather_sensor_data, first loop (lines 111-123).  With a Camera in the list,
\* capture_image runs up to its asyncio.sleep(2.0); a RuntimeError before the
\* sleep is caught and the loop goes on without suspending.
GatherScan ==
    /\ pc["ctl"] = "gather"
    /\ Suspended("lcd")
    /\ aht21_exists' = ("TEMP_AHT21" \in Range(current_objects))
    /\ co2_exists' = ("CO2_ENS160" \in Range(current_objects))
    /\ aht21_temperature' = UNBOUND
    /\ aht21_humidity' = UNBOUND
    /\ cycle' = cycle + 1
    /\ ahtFirst' = <<>>
    /\ failedThisCycle' = {}
    /\ busOp' = "none"
    /\ \/ /\ "Camera" \in Range(current_objects)
          /\ pc' = [pc EXCEPT !["ctl"] = "camera_sleep"]
          /\ UNCHANGED <<current_objects, round, pos>>
       \/ BeginRounds
    /\ UNCHANGED <<lockVars, sensors, compVars, sensor_data, last_data, next_reading,
                   exception, lcdVars, pureVars>>

\* Camera.capture_image after asyncio.sleep(2.0): capture_file (a RuntimeError is
\* caught, the path is None), then the end of the first loop and the reordering.
CameraDone ==
    /\ pc["ctl"] = "camera_sleep"
    /\ Suspended("lcd")
    /\ BeginRounds
    /\ busOp' = "none"
    /\ UNCHANGED <<lockVars, sensors, compVars, gatherLocals, sensor_data, last_data,
                   next_reading, exception, cycle, lcdVars, ahtFirst, failedThisCycle,
                   pureVars>>

\* End of one sensor's turn in the round loop (lines 129-150).
NextInRound ==
    IF pos < Len(current_objects)
    THEN /\ pos' = pos + 1
         /\ UNCHANGED <<round, sensor_data>>
         /\ pc' = pc
    ELSE /\ pos' = 1
         /\ round' = round + 1
         /\ IF round + 1 < NUM_READINGS
            THEN pc' = pc /\ UNCHANGED sensor_data
            ELSE /\ pc' = [pc EXCEPT !["ctl"] = "package"]
                 /\ sensor_data' = EmptySnapshot

InCollect(kind) ==
    /\ pc["ctl"] = "collect"
    /\ Suspended("lcd")
    /\ current_objects[pos] = kind

\* "if isinstance(sensor, Camera): continue"
CollectCamera ==
    /\ InCollect("Camera")
    /\ NextInRound
    /\ busOp' = "none"
    /\ UNCHANGED <<lockVars, current_objects, sensors, compVars, gatherLocals, last_data,
                   next_reading, exception, cycle, lcdVars, ahtFirst, failedThisCycle,
                   pureVars>>

\* TEMP_AHT21 branch (lines 134-140).
CollectAHT ==
    /\ InCollect("TEMP_AHT21")
    /\ \E hw \in HwSamples("TEMP_AHT21") :
          LET r == collect_data_for_median("TEMP_AHT21", sensors["TEMP_AHT21"], hw) IN
          IF r.raised
          THEN /\ Crash("AttributeError")
               /\ UNCHANGED <<sensors, gatherLocals, round, pos, sensor_data, ahtFirst>>
          ELSE /\ sensors' = [sensors EXCEPT !["TEMP_AHT21"] = r.data]
               /\ ahtFirst' = IF round = 0 THEN <<hw["temperature"], hw["relative_humidity"]>>
                              ELSE ahtFirst
               /\ IF co2_exists
                  THEN /\ aht21_temperature' = get_temperature(r.data)
                       /\ aht21_humidity' = get_humidity(r.data)
                  ELSE UNCHANGED <<aht21_temperature, aht21_humidity>>
               /\ UNCHANGED <<aht21_exists, co2_exists>>
               /\ NextInRound
               /\ busOp' = "ctl"
               /\ UNCHANGED <<lockVars, exception>>
    /\ UNCHANGED <<current_objects, compVars, last_data, next_reading, cycle, lcdVars,
                   failedThisCycle, pureVars>>

\* Faulty variant of CollectCO2: the compensation fields are assigned from the
\* locals whether or not a temperature sensor exists.
CollectCO2_AlwaysCompensate ==
    /\ InCollect("CO2_ENS160")
    /\ IF aht21_exists /\ aht21_temperature = UNBOUND
       THEN /\ Crash("UnboundLocalError")
            /\ UNCHANGED <<sensors, compVars, round, pos, sensor_data>>
       ELSE \E script \in Co2Scripts :
               LET r == co2_collect_data_for_median(sensors["CO2_ENS160"], script) IN
               /\ IF TRUE
                  THEN /\ temperature_compensation' = aht21_temperature
                       /\ humidity_compensation' = aht21_humidity
                  ELSE UNCHANGED compVars
               /\ IF r.raised
                  THEN /\ Crash("AttributeError")
                       /\ UNCHANGED <<sensors, round, pos, sensor_data>>
                  ELSE /\ sensors' = [sensors EXCEPT !["CO2_ENS160"] = r.data]
                       /\ NextInRound
                       /\ busOp' = "ctl"
                       /\ UNCHANGED <<lockVars, exception>>
    /\ UNCHANGED <<current_objects, gatherLocals, last_data, next_reading, cycle, lcdVars,
                   ahtFirst, failedThisCycle, pureVars>>

\* CO2_ENS160 branch (lines 141-147).
CollectCO2 ==
    /\ InCollect("CO2_ENS160")
    /\ IF aht21_exists /\ aht21_temperature = UNBOUND
       THEN /\ Crash("UnboundLocalError")
            /\ UNCHANGED <<sensors, compVars, round, pos, sensor_data>>
       ELSE \E script \in Co2Scripts :
               LET r == co2_collect_data_for_median(sensors["CO2_ENS160"], script) IN
               /\ IF aht21_exists
                  THEN /\ temperature_compensation' = aht21_temperature
                       /\ humidity_compensation' = aht21_humidity
                  ELSE UNCHANGED compVars
               /\ IF r.raised
                  THEN /\ Crash("AttributeError")
                       /\ UNCHANGED <<sensors, round, pos, sensor_data>>
                  ELSE /\ sensors' = [sensors EXCEPT !["CO2_ENS160"] = r.data]
                       /\ NextInRound
                       /\ busOp' = "ctl"
                       /\ UNCHANGED <<lockVars, exception>>
    /\ UNCHANGED <<current_objects, gatherLocals, last_data, next_reading, cycle, lcdVars,
                   ahtFirst, failedThisCycle, pureVars>>

\* Any other sensor (line 149).
CollectOther ==
    /\ \E kind \in {"RGB_TCS34725", "IR_MLX90614"} :
          /\ InCollect(kind)
          /\ \E hw \in HwSamples(kind) :
                LET r == collect_data_for_median(kind, sensors[kind], hw) IN
                IF r.raised
                THEN /\ Crash("AttributeError")
                     /\ UNCHANGED <<sensors, round, pos, sensor_data>>
                ELSE /\ sensors' = [sensors EXCEPT ![kind] = r.data]
                     /\ NextInRound
                     /\ busOp' = "ctl"
                     /\ UNCHANGED <<lockVars, exception>>
    /\ UNCHANGED <<current_objects, compVars, gatherLocals, last_data, next_reading, cycle,
                   lcdVars, ahtFirst, failedThisCycle, pureVars>>

\* A hardware read (getattr(self, key)) raises: nothing in collect_data_for_median,
\* _gather_sensor_data or get_data catches it.
HardwareReadError ==
    /\ pc["ctl"] = "collect"
    /\ Suspended("lcd")
    /\ current_objects[pos] # "Camera"
    /\ Crash("HardwareReadError")
    /\ UNCHANGED <<current_objects, sensors, compVars, gatherLocals, round, pos,
                   sensor_data, last_data, next_reading, cycle, lcdVars, ahtFirst,
                   failedThisCycle, pureVars>>

\* A key of the sensor's data dict does not hold a list of exactly NUM_READINGS samples.
NotFull(d) ==
    \E k \in DOMAIN d : ~(d[k].kind = "list" /\ Len(d[k].list) = NUM_READINGS)

\* One iteration of the packaging loop of get_data (lines 159-165).
Package ==
    /\ pc["ctl"] = "package"
    /\ Suspended("lcd")
    /\ pos <= Len(current_objects)
    /\ LET kind == current_objects[pos] IN
       IF kind = "Camera"
       THEN /\ pos' = pos + 1
            /\ busOp' = "none"
            /\ UNCHANGED <<pc, lockVars, sensors, sensor_data, exception, failedThisCycle>>
       ELSE LET r == package(kind, sensors[kind]) IN
            /\ failedThisCycle' = IF NotFull(sensors[kind])
                                  THEN failedThisCycle \cup {kind} ELSE failedThisCycle
            /\ IF r.raised
               THEN /\ Crash("TypeError")
                    /\ sensors' = [sensors EXCEPT ![kind] = r.data]
                    /\ UNCHANGED <<pos, sensor_data>>
               ELSE /\ IF ~r.isNone
                       THEN /\ sensor_data' = Update(sensor_data, kind, r.reading)
                            /\ sensors' = [sensors EXCEPT ![kind] = reset_sensor_data(kind)]
                       ELSE /\ sensors' = [sensors EXCEPT ![kind] = r.data]
                            /\ UNCHANGED sensor_data
                    /\ pos' = pos + 1
                    /\ busOp' = "none"
                    /\ UNCHANGED <<pc, lockVars, exception>>
    /\ UNCHANGED <<current_objects, compVars, gatherLocals, round, last_data, next_reading,
                   cycle, lcdVars, ahtFirst, pureVars>>

\* Faulty variant of Publish: the new Snapshot is merged into the published one.
Publish_Merge ==
    /\ pc["ctl"] = "package"
    /\ Suspended("lcd")
    /\ pos > Len(current_objects)
    /\ last_data' =
          IF last_data.isNone THEN sensor_data
          ELSE [isNone |-> FALSE,
                order |-> last_data.order \o
                          SelectSeq(sensor_data.order,
                                    LAMBDA k : k \notin Range(last_data.order)),
                data |-> [k \in (DOMAIN last_data.data) \cup (DOMAIN sensor_data.data) |->
                             IF k \in DOMAIN sensor_data.data THEN sensor_data.data[k]
                             ELSE last_data.data[k]]]
    /\ \E clock \in ClockSamples : next_reading' = _calc_next_reading(clock)
    /\ Release("ctl")
    /\ pc' = [pc EXCEPT !["ctl"] = "sleep"]
    /\ busOp' = "none"
    /\ UNCHANGED <<current_objects, sensors, compVars, gatherLocals, round, pos,
                   sensor_data, exception, cycle, lcdVars, ahtFirst, failedThisCycle,
                   pureVars>>

\* End of the locked block of get_data (lines 166-173): the Snapshot is published,
\* the wait is computed, the lock is released and the task sleeps.
Publish ==
    /\ pc["ctl"] = "package"
    /\ Suspended("lcd")
    /\ pos > Len(current_objects)
    /\ last_data' = sensor_data
    /\ \E clock \in ClockSamples : next_reading' = _calc_next_reading(clock)
    /\ Release("ctl")
    /\ pc' = [pc EXCEPT !["ctl"] = "sleep"]
    /\ busOp' = "none"
    /\ UNCHANGED <<current_objects, sensors, compVars, gatherLocals, round, pos,
                   sensor_data, exception, cycle, lcdVars, ahtFirst, failedThisCycle,
                   pureVars>>

(***************************************************************************)
(* LCD.monitor                                                             *)
(***************************************************************************)
ctlVars == <<current_objects, sensors, compVars, gatherLocals, round, pos, sensor_data,
             last_data, next_reading, exception, cycle, ahtFirst, failedThisCycle>>

\* "async with self.__i2c_lock" (first entry, or after asyncio.sleep(1.0) returned).
LcdAcquire ==
    /\ pc["lcd"] \in {"start", "refresh"}
    /\ Suspended("ctl")
    /\ Acquire("lcd", "screen")
    /\ busOp' = "none"
    /\ UNCHANGED <<ctlVars, lcdVars, pureVars>>

LcdResume ==
    /\ Suspended("ctl")
    /\ Resume("lcd", "screen")
    /\ busOp' = "none"
    /\ UNCHANGED <<ctlVars, lcdVars, pureVars>>

\* _display_sensor_data up to its first suspension: the header and up to three
\* rows are written; with a third row written it sleeps inside the loop (line 344),
\* otherwise it returns and _write_to_screen sleeps (line 357).
ShowPage(pages) ==
    LET n == Len(Keys(Head(pages))) IN
    /\ lcdPages' = pages
    /\ IF n >= 3
       THEN /\ lcdAttrLeft' = n - 3
            /\ pc' = [pc EXCEPT !["lcd"] = "row_sleep"]
       ELSE /\ lcdAttrLeft' = 0
            /\ pc' = [pc EXCEPT !["lcd"] = "page_sleep"]

\* display_messages with the "Next Reading" tuple, up to its sleep (line 377).
ShowMessages ==
    /\ lcdPages' = <<>>
    /\ lcdAttrLeft' = 0
    /\ pc' = [pc EXCEPT !["lcd"] = "msg_sleep"]

\* _write_to_screen from its start (lines 351-356).
LcdWriteToScreen ==
    /\ pc["lcd"] = "screen"
    /\ lcd_last_data' = last_data
    /\ IF last_data.isNone
       THEN /\ Release("lcd")
            /\ pc' = [pc EXCEPT !["lcd"] = "refresh"]
            /\ busOp' = "none"
            /\ UNCHANGED <<lcdPages, lcdAttrLeft>>
       ELSE /\ IF last_data.order = <<>> THEN ShowMessages ELSE ShowPage(last_data.order)
            /\ busOp' = "lcd"
            /\ UNCHANGED lockVars
    /\ UNCHANGED <<ctlVars, pureVars>>

\* _display_sensor_data after the sleep of line 344: header again, remaining rows.
LcdRowResume ==
    /\ pc["lcd"] = "row_sleep"
    /\ Suspended("ctl")
    /\ IF lcdAttrLeft >= 3
       THEN /\ lcdAttrLeft' = lcdAttrLeft - 3
            /\ pc' = pc
       ELSE /\ lcdAttrLeft' = 0
            /\ pc' = [pc EXCEPT !["lcd"] = "page_sleep"]
    /\ busOp' = "lcd"
    /\ UNCHANGED <<lockVars, ctlVars, lcd_last_data, lcdPages, pureVars>>

\* _write_to_screen after the sleep of line 357: the next sensor, or the message.
LcdPageResume ==
    /\ pc["lcd"] = "page_sleep"
    /\ Suspended("ctl")
    /\ IF Tail(lcdPages) = <<>> THEN ShowMessages ELSE ShowPage(Tail(lcdPages))
    /\ busOp' = "lcd"
    /\ UNCHANGED <<lockVars, ctlVars, lcd_last_data, pureVars>>

\* display_messages returns after its sleep; monitor leaves "async with" and
\* sleeps one second (lines 316-317).
LcdRelease ==
    /\ pc["lcd"] = "msg_sleep"
    /\ Suspended("ctl")
    /\ Release("lcd")
    /\ pc' = [pc EXCEPT !["lcd"] = "refresh"]
    /\ busOp' = "none"
    /\ UNCHANGED <<ctlVars, lcdVars, pureVars>>

(***************************************************************************)
(* main(): asyncio.gather re-raises the exception of get_data; asyncio.run *)
(* then cancels the display task at its suspension point.                  *)
(***************************************************************************)
Terminate ==
    /\ pc["ctl"] = "crashed"
    /\ pc["lcd"] # "cancelled"
    /\ Suspended("lcd")
    /\ pc' = [pc EXCEPT !["lcd"] = "cancelled"]
    /\ waiters' = RemoveFrom(waiters, "lcd")
    /\ woken' = woken \ {"lcd"}
    /\ holds' = [holds EXCEPT !["lcd"] = FALSE]
    /\ locked' = IF holds["lcd"] THEN FALSE ELSE locked
    /\ busOp' = "none"
    /\ UNCHANGED <<ctlVars, lcdVars, pureVars>>

Next ==
    \/ CtlAcquire
    \/ CtlResume
    \/ GatherScan
    \/ CameraDone
    \/ CollectCamera
    \/ CollectAHT
    \/ CollectCO2
    \/ CollectOther
    \/ HardwareReadError
    \/ Package
    \/ Publish
    \/ LcdAcquire
    \/ LcdResume
    \/ LcdWriteToScreen
    \/ LcdRowResume
    \/ LcdPageResume
    \/ LcdRelease
    \/ Terminate

Spec == Init /\ [][Next]_vars

(***************************************************************************)
(* The event loop runs every task that can run: a task whose sleep is over *)
(* or whose lock future has a result is resumed, and a running task goes   *)
(* on to its next suspension point (time.sleep and the hardware reads      *)
(* return).  A hardware read error is a fault that need not happen.        *)
(***************************************************************************)
CtlStep ==
    \/ CtlAcquire \/ CtlResume \/ GatherScan \/ CameraDone \/ CollectCamera
    \/ CollectAHT \/ CollectCO2 \/ CollectOther \/ Package \/ Publish

LcdStep ==
    \/ LcdAcquire \/ LcdResume \/ LcdWriteToScreen \/ LcdRowResume
    \/ LcdPageResume \/ LcdRelease

Fairness == WF_vars(CtlStep) /\ WF_vars(LcdStep) /\ WF_vars(Terminate)

\* The sensor sets the fair specification is run on: one with the Camera and the
\* CO2 sensor, one with the temperature sensor and another sensor.
LiveOrders == {<<"Camera", "CO2_ENS160">>, <<"TEMP_AHT21", "IR_MLX90614">>}

InitLive ==
    /\ pc = [t \in Tasks |-> "start"]
    /\ InitCommon
    /\ InitPure
    /\ \E order \in LiveOrders : InitObjects(order)

SpecLive == InitLive /\ [][Next]_vars /\ Fairness

(***************************************************************************)
(* find_median_data called on its own, on every list of up to              *)
(* NUM_READINGS + 1 values in 0..MaxVal.                                   *)
(***************************************************************************)
SeqsUpTo(S, n) == UNION {[1..m -> S] : m \in 0..n}

InitMedian ==
    /\ pc = [t \in Tasks |-> "call"]
    /\ InitCommon
    /\ InitObjects(<<"IR_MLX90614">>)
    /\ data_list \in {ListSlot(l) : l \in SeqsUpTo(0..MaxVal, NUM_READINGS + 1)}
    /\ median = NoneSlot
    /\ packaged = NoSnapshot
    /\ now = <<0, 0>>
    /\ InitRetry

\* The call: the list is sorted in place when its length is NUM_READINGS.
CallFindMedian ==
    /\ pc["ctl"] = "call"
    /\ median' = find_median_data(data_list)
    /\ data_list' = IF Len(data_list.list) = NUM_READINGS
                    THEN ListSlot(Sorted(data_list.list)) ELSE data_list
    /\ pc' = [pc EXCEPT !["ctl"] = "return"]
    /\ UNCHANGED <<lockVars, ctlVars, lcdVars, busOp, packaged, now, retryVars,
                   created_objects, previous_call>>

NextMedian == CallFindMedian

SpecMedian == InitMedian /\ [][NextMedian]_vars

(***************************************************************************)
(* A sensor object driven through its methods: collect_data_for_median,    *)
(* package and reset_sensor_data called in any order.                      *)
(***************************************************************************)
SensorKinds == {"IR_MLX90614", "CO2_ENS160"}
SensorUnderTest == CHOOSE k \in SensorKinds : k \in DOMAIN sensors

InitSensor ==
    /\ pc = [t \in Tasks |-> "call"]
    /\ InitCommon
    /\ \E kind \in SensorKinds : InitObjects(<<kind>>)
    /\ InitPure

\* collect_data_for_median with hardware values in 1..MaxVal (the same on every key).
SensorCollect ==
    /\ pc["ctl"] = "call"
    /\ LET kind == SensorUnderTest IN
       /\ Len(sensors[kind][Keys(kind)[1]].list) <= NUM_READINGS
       /\ \E v \in 1..MaxVal :
             sensors' = [sensors EXCEPT ![kind] =
                IF kind = "CO2_ENS160"
                THEN co2_collect_data_for_median(
                        @, [k \in KeySet(kind) |-> [i \in 1..CO2_ATTEMPTS |-> v]]).data
                ELSE collect_data_for_median(kind, @, [k \in KeySet(kind) |-> v]).data]
    /\ UNCHANGED <<pc, lockVars, current_objects, compVars, gatherLocals, round, pos,
                   sensor_data, last_data, next_reading, exception, cycle, ahtFirst,
                   failedThisCycle, lcdVars, busOp, pureVars>>

\* package(): data_list and median record the first key's accumulator and reduction.
SensorPackage ==
    /\ pc["ctl"] = "call"
    /\ LET kind == SensorUnderTest
           r == package(kind, sensors[kind])
       IN /\ data_list' = sensors[kind][Keys(kind)[1]]
          /\ median' = find_median_data(sensors[kind][Keys(kind)[1]])
          /\ sensors' = [sensors EXCEPT ![kind] = r.data]
          /\ packaged' = IF r.isNone THEN NoSnapshot
                         ELSE Update(EmptySnapshot, kind, r.reading)
    /\ pc' = [pc EXCEPT !["ctl"] = "packaged"]
    /\ UNCHANGED <<lockVars, current_objects, compVars, gatherLocals, round, pos,
                   sensor_data, last_data, next_reading, exception, cycle, ahtFirst,
                   failedThisCycle, lcdVars, busOp, now, retryVars, created_objects,
                   previous_call>>

\* reset_sensor_data()
SensorReset ==
    /\ pc["ctl"] = "packaged"
    /\ sensors' = [sensors EXCEPT ![SensorUnderTest] = reset_sensor_data(SensorUnderTest)]
    /\ pc' = [pc EXCEPT !["ctl"] = "call"]
    /\ UNCHANGED <<lockVars, current_objects, compVars, gatherLocals, round, pos,
                   sensor_data, last_data, next_reading, exception, cycle, ahtFirst,
                   failedThisCycle, lcdVars, busOp, pureVars>>

NextSensor == SensorCollect \/ SensorPackage \/ SensorReset

SpecSensor == InitSensor /\ [][NextSensor]_vars

(***************************************************************************)
(* Controller._calc_next_reading called on its own at every wall-clock     *)
(* minute and second, and again at the end of the cycles that follow,      *)
(* which complete at the same wall-clock minute and second or at another.  *)
(***************************************************************************)
InitSched ==
    /\ pc = [t \in Tasks |-> "call"]
    /\ InitCommon
    /\ InitObjects(MainOrder)
    /\ data_list = NoneSlot
    /\ median = NoneSlot
    /\ packaged = NoSnapshot
    /\ now \in (0..59) \X (0..59)
    /\ InitRetry

CallCalcNextReading ==
    /\ pc["ctl"] = "call"
    /\ next_reading' = _calc_next_reading(now)
    /\ pc' = [pc EXCEPT !["ctl"] = "return"]
    /\ UNCHANGED <<lockVars, current_objects, sensors, compVars, gatherLocals, round, pos,
                   sensor_data, last_data, exception, cycle, ahtFirst, failedThisCycle,
                   lcdVars, busOp, pureVars>>

\* The sleep of line 173 and the next cycle up to its call of _calc_next_reading:
\* the cycle takes any time, so it completes at any minute and second.
NextCycleCompletes ==
    /\ pc["ctl"] = "return"
    /\ cycle + 1 < MaxCycles
    /\ cycle' = cycle + 1
    /\ previous_call' = <<now, next_reading>>
    /\ now' \in {now} \cup ClockSamples
    /\ pc' = [pc EXCEPT !["ctl"] = "call"]
    /\ UNCHANGED <<lockVars, current_objects, sensors, compVars, gatherLocals, round, pos,
                   sensor_data, last_data, next_reading, exception, ahtFirst,
                   failedThisCycle, lcdVars, busOp, data_list, median, packaged,
                   retryVars, created_objects>>

NextSched == CallCalcNextReading \/ NextCycleCompletes

SpecSched == InitSched /\ [][NextSched]_vars

(***************************************************************************)
(* CO2_ENS160.collect_data_for_median called on its own: one collection,   *)
(* on a data dict that holds the samples of earlier collections (or what a *)
(* failed package() left), for every sequence of readings of the attempts. *)
(***************************************************************************)
\* What a read of an ENS160 attribute returns in this specification.
RetryReadings == {0, 7, 9}

\* The CO2 data dict after n collections that each read 7 at once.
Co2After(n) == [k \in KeySet("CO2_ENS160") |-> ListSlot([i \in 1..n |-> 7])]

\* The CO2 data dict that package() leaves when AQI came one sample short.
Co2Stale ==
    [k \in KeySet("CO2_ENS160") |-> IF k = "AQI" THEN NoneSlot ELSE ValueSlot(7)]

InitCollect ==
    /\ pc = [t \in Tasks |-> "call"]
    /\ InitCommon
    /\ current_objects = <<"CO2_ENS160">>
    /\ created_objects = <<"CO2_ENS160">>
    /\ previous_call = <<>>
    /\ sensors \in [{"CO2_ENS160"} ->
                      {Co2After(n) : n \in 0..(NUM_READINGS - 1)} \cup {Co2Stale}]
    /\ data_list = NoneSlot
    /\ median = NoneSlot
    /\ packaged = NoSnapshot
    /\ now = <<0, 0>>
    /\ co2_script \in [KeySet("CO2_ENS160") -> [1..CO2_ATTEMPTS -> RetryReadings]]
    /\ co2_before = sensors["CO2_ENS160"]
    /\ co2_reads = <<>>

CallCollect ==
    /\ pc["ctl"] = "call"
    /\ LET r == co2_collect_data_for_median(sensors["CO2_ENS160"], co2_script) IN
       /\ sensors' = [sensors EXCEPT !["CO2_ENS160"] = r.data]
       /\ co2_reads' = r.reads
       /\ exception' = IF r.raised THEN "AttributeError" ELSE "none"
    /\ pc' = [pc EXCEPT !["ctl"] = "return"]
    /\ UNCHANGED <<lockVars, current_objects, compVars, gatherLocals, round, pos,
                   sensor_data, last_data, next_reading, cycle, ahtFirst, failedThisCycle,
                   lcdVars, busOp, data_list, median, packaged, now, co2_script,
                   co2_before, created_objects, previous_call>>

NextCollect == CallCollect

SpecCollect == InitCollect /\ [][NextCollect]_vars

(***************************************************************************)
(* The first loop and the reordering of _gather_sensor_data called on      *)
(* their own, cycle after cycle, on every list _create_objects can build:  *)
(* the keys of the sensor map are distinct, in any order.                  *)
(***************************************************************************)
AllOrders ==
    { s \in SeqsUpTo(Kinds, Cardinality(Kinds)) :
         \A i, j \in 1..Len(s) : s[i] = s[j] => i = j }

InitReorder ==
    /\ pc = [t \in Tasks |-> "call"]
    /\ InitCommon
    /\ InitPure
    /\ \E order \in AllOrders : InitObjects(order)

\* Lines 109-127 of one cycle.
CallReorder ==
    /\ pc["ctl"] = "call"
    /\ cycle < MaxCycles
    /\ cycle' = cycle + 1
    /\ aht21_exists' = ("TEMP_AHT21" \in Range(current_objects))
    /\ co2_exists' = ("CO2_ENS160" \in Range(current_objects))
    /\ current_objects' = reorder(current_objects)
    /\ UNCHANGED <<pc, lockVars, sensors, compVars, aht21_temperature, aht21_humidity,
                   round, pos, sensor_data, last_data, next_reading, exception, ahtFirst,
                   failedThisCycle, lcdVars, busOp, pureVars>>

NextReorder == CallReorder

SpecReorder == InitReorder /\ [][NextReorder]_vars

(***************************************************************************)
(* Properties.                                                             *)
(***************************************************************************)
NonCamera == Range(current_objects) \ {"Camera"}
BothPresent == {"TEMP_AHT21", "CO2_ENS160"} \subseteq Range(current_objects)

\* C1: bus mutual exclusion.  The two tasks are never inside their locked blocks
\* at the same time, a task inside its block has the lock locked, and every step
\* that touches the bus (a sample collection, an LCD write) is taken by a task
\* that is inside its locked block.
C1_BusMutualExclusion ==
    /\ ~(holds["ctl"] /\ holds["lcd"])
    /\ \A t \in Tasks : holds[t] => locked
    /\ busOp # "none" => holds[busOp]

\* C1 witness: the acquisition task samples a sensor while the display task is
\* queued on the lock.
C1_Witness ==
    /\ busOp = "ctl"
    /\ pc["lcd"] = "wait_lock"
    /\ holds["ctl"]

\* C2: with hardware that answers every read (no read error), no exception ever
\* ends the acquisition task, whatever the readings are.
C2_AcquisitionNeverStops ==
    pc["ctl"] = "crashed" => exception = "HardwareReadError"

\* C3: every Reading of the published Snapshot holds a reduced value under each
\* tracked attribute, the Snapshot has at most one Reading per active non-camera
\* sensor, and right after a publication no sensor that came to its reduction
\* without exactly NUM_READINGS samples under every attribute is in the Snapshot.
C3_SnapshotHasOnlyReducedReadings ==
    ~last_data.isNone =>
       /\ \A kind \in DOMAIN last_data.data :
             \A key \in KeySet(kind) : last_data.data[kind][key].kind = "value"
       /\ Len(last_data.order) <= Cardinality(NonCamera)
       /\ DOMAIN last_data.data \subseteq NonCamera
       /\ pc["ctl"] = "sleep" => failedThisCycle \cap DOMAIN last_data.data = {}

\* C3 witness: a Snapshot was just published in a cycle in which the CO2 sensor
\* failed to reduce; it holds the other sensors' Readings and not the CO2 one.
C3_Witness ==
    /\ pc["ctl"] = "sleep"
    /\ ~last_data.isNone
    /\ "CO2_ENS160" \in failedThisCycle
    /\ "CO2_ENS160" \notin DOMAIN last_data.data
    /\ "TEMP_AHT21" \in DOMAIN last_data.data

\* C4: a sensor that comes to its reduction without exactly NUM_READINGS samples
\* never aborts the packaging of the cycle, and the Snapshot published at the end
\* of the cycle holds the Reading of every other active sensor.
C4_PartialFailureTolerated ==
    /\ exception # "TypeError"
    /\ (pc["ctl"] = "sleep" /\ ~last_data.isNone) =>
          (NonCamera \ failedThisCycle) \subseteq DOMAIN last_data.data

\* C5: a hardware read error raised during a sample collection never ends the
\* acquisition task (it is caught, and the cycle goes on to publish).
C5_ReadErrorIsCaught ==
    exception # "HardwareReadError"

\* C8: with both sensors present, whenever the CO2 sensor is about to collect a
\* sample in a round, the temperature/humidity sensor has already collected its
\* sample of that round (it holds round + 1 samples of the current cycle).
C8_TemperatureBeforeCO2 ==
    (pc["ctl"] = "collect" /\ BothPresent /\ current_objects[pos] = "CO2_ENS160") =>
       /\ sensors["TEMP_AHT21"]["temperature"].kind = "list"
       /\ Len(sensors["TEMP_AHT21"]["temperature"].list) = round + 1
       /\ IndexOf(current_objects, "TEMP_AHT21") < IndexOf(current_objects, "CO2_ENS160")

\* C8 witness: the list that started as CO2, IR, TEMP has been reordered, and the
\* CO2 sensor is about to collect in the second round.
C8_Witness ==
    /\ pc["ctl"] = "collect"
    /\ current_objects = <<"IR_MLX90614", "TEMP_AHT21", "CO2_ENS160">>
    /\ current_objects[pos] = "CO2_ENS160"
    /\ round = 1

\* The CO2 sensor has collected at least one sample in the running cycle.
Co2SampledThisCycle ==
    /\ pc["ctl"] \in {"collect", "package"}
    /\ BothPresent
    /\ round >= 1 \/ pos > IndexOf(current_objects, "CO2_ENS160")

\* C9: with both sensors present, once the CO2 sensor has collected in a cycle its
\* compensation fields equal the temperature and the humidity of the temperature
\* sensor's first sample of that cycle, for all sample values.
C9_CompensationIsFirstSample ==
    Co2SampledThisCycle =>
       /\ temperature_compensation = ahtFirst[1]
       /\ humidity_compensation = ahtFirst[2]

\* C6: for every list of exactly NUM_READINGS values, find_median_data returns
\* the element at index NUM_READINGS \div 2 of the sorted list: a value of the
\* list with at most NUM_READINGS \div 2 values below it and more than
\* NUM_READINGS \div 2 values not above it (the upper median, never an average).
C6_MedianIsUpperMiddle ==
    (pc["ctl"] = "return" /\ Len(data_list.list) = NUM_READINGS) =>
       LET l == data_list.list
           half == NUM_READINGS \div 2
       IN /\ median.kind = "value"
          /\ \E i \in 1..Len(l) : l[i] = median.val
          /\ Cardinality({i \in 1..Len(l) : l[i] < median.val}) <= half
          /\ Cardinality({i \in 1..Len(l) : l[i] <= median.val}) > half

\* C6 witness: a list of NUM_READINGS distinct values was reduced to the upper
\* of its two central values.
C6_Witness ==
    /\ pc["ctl"] = "return"
    /\ Len(data_list.list) = NUM_READINGS
    /\ \E i \in 1..Len(data_list.list) : data_list.list[i] < median.val
    /\ median.kind = "value"
    /\ median.val = data_list.list[Len(data_list.list)]

\* C7: when package() is called on a sensor whose accumulator holds a number of
\* samples other than NUM_READINGS, find_median_data yields no value and the
\* sensor yields no Reading.
C7_WrongLengthGivesNoReading ==
    (pc["ctl"] = "packaged" /\ data_list.kind = "list"
        /\ Len(data_list.list) # NUM_READINGS) =>
       /\ median = NoneSlot
       /\ packaged.isNone

\* C10: the completion time plus the wait of _calc_next_reading is a wall-clock
\* instant whose minute is a multiple of STAGGER_INTERVAL and whose second is 0,
\* and the wait is the number of seconds left until the next such instant.
C10_WaitReachesBoundary ==
    pc["ctl"] = "return" =>
       LET t == (now[1] * 60) + now[2]
           period == STAGGER_INTERVAL * 60
       IN /\ (t + next_reading) % period = 0
          /\ next_reading = period - (t % period)

\* Every key of the CO2 data dict held an accumulator before the last collection.
Co2HadAccumulators ==
    \A k \in KeySet("CO2_ENS160") : co2_before[k].kind = "list"

C12_ExhaustionAppendsZero ==
    (pc["ctl"] = "return" /\ Co2HadAccumulators) =>
       \A key \in KeySet("CO2_ENS160") :
          /\ sensors["CO2_ENS160"][key].kind = "list"
          /\ Len(sensors["CO2_ENS160"][key].list) = Len(co2_before[key].list) + 1
          /\ FirstNonZero(co2_script[key]) = 0 =>
                sensors["CO2_ENS160"][key].list = Append(co2_before[key].list, 0)

\* A step in which get_data leaves its locked block normally (a publication).
PublishStep == pc["ctl"] = "package" /\ pc'["ctl"] = "sleep"

\* C13: the value get_last_data returns (last_data) is None at the start and
\* changes only in a publication step; a publication sets it to the Snapshot
\* assembled in the cycle that completes, which holds the Reading of exactly the
\* active sensors that reduced NUM_READINGS samples in that cycle (a sensor that
\* failed in this cycle is absent even if the previous Snapshot held it); and the
\* copy the display took of an earlier Snapshot is not changed by a publication.
C13_LatestSnapshotPublished ==
    [][ /\ (last_data' # last_data) => PublishStep
        /\ (cycle = 0) => last_data.isNone
        /\ PublishStep =>
              /\ ~last_data'.isNone
              /\ last_data' = sensor_data
              /\ DOMAIN last_data'.data = NonCamera \ failedThisCycle
              /\ Range(last_data'.order) = DOMAIN last_data'.data
              /\ lcd_last_data' = lcd_last_data ]_vars

\* C13 witness: the second cycle has published a Snapshot without the CO2 Reading
\* (the CO2 sensor failed in it) while the display still holds the first cycle's
\* Snapshot, which has the CO2 Reading.
C13_Witness ==
    /\ pc["ctl"] = "sleep"
    /\ cycle = 2
    /\ ~last_data.isNone
    /\ "CO2_ENS160" \notin DOMAIN last_data.data
    /\ "TEMP_AHT21" \in DOMAIN last_data.data
    /\ ~lcd_last_data.isNone
    /\ "CO2_ENS160" \in DOMAIN lcd_last_data.data

\* C14: when the first sampling round of a cycle starts, every key of every
\* active non-camera sensor's data dict holds an empty accumulator (no sample and
\* no reduced value of the previous cycle).
C14_AccumulatorsEmptyAtCycleStart ==
    (pc["ctl"] = "collect" /\ round = 0 /\ pos = 1) =>
       \A kind \in NonCamera : sensors[kind] = reset_sensor_data(kind)

\* Labels at which a task is suspended in asyncio.sleep.
SleepLabels == {"sleep", "refresh", "camera_sleep", "row_sleep", "page_sleep", "msg_sleep"}

\* C15: a task suspended in asyncio.sleep (the scheduler sleep, the display's
\* refresh sleep, the camera's settle sleep, the display's page sleeps) is not
\* inside its locked block.
C15_NoLockWhileSleeping ==
    \A t \in Tasks : pc[t] \in SleepLabels => ~holds[t]

\* C16: a task inside its locked block eventually leaves it, and a task queued
\* on the lock eventually enters its locked block (the display task unless the
\* process has ended in the meantime).
C16_LockNeverStuck ==
    /\ \A t \in Tasks : holds[t] ~> ~holds[t]
    /\ (pc["ctl"] = "wait_lock") ~> holds["ctl"]
    /\ (pc["lcd"] = "wait_lock") ~> (holds["lcd"] \/ pc["lcd"] = "cancelled")

\* C16 witness: the acquisition task is queued on the lock while the display
\* task, inside its locked block, sleeps between two pages.
C16_Witness ==
    /\ pc["ctl"] = "wait_lock"
    /\ holds["lcd"]
    /\ pc["lcd"] = "page_sleep"

\* The CO2 sensor is active and a cycle has just published its Snapshot.
Co2CyclePublished ==
    /\ pc["ctl"] = "sleep"
    /\ "CO2_ENS160" \in Range(current_objects)

\* C17: when a cycle has published, the Snapshot holds the CO2 Reading exactly
\* when AQI, TVOC and eCO2 all reduced to a non-zero value: a Reading in the
\* Snapshot has a non-zero value under each of them, and when the Reading is
\* absent one of them reduced to zero or to no value (the reduced values are
\* then still in the sensor's data dict).
C17_Co2PackagedIffAllNonZero ==
    Co2CyclePublished =>
       IF "CO2_ENS160" \in DOMAIN last_data.data
       THEN \A key \in KeySet("CO2_ENS160") :
               /\ last_data.data["CO2_ENS160"][key].kind = "value"
               /\ last_data.data["CO2_ENS160"][key].val # 0
       ELSE \E key \in KeySet("CO2_ENS160") :
               \/ sensors["CO2_ENS160"][key] = NoneSlot
               \/ sensors["CO2_ENS160"][key] = ValueSlot(0)

\* C17 witness: a cycle has published without the CO2 Reading; AQI reduced to no
\* value while TVOC and eCO2 reduced to 7.
C17_Witness ==
    /\ Co2CyclePublished
    /\ "CO2_ENS160" \notin DOMAIN last_data.data
    /\ sensors["CO2_ENS160"]["AQI"] = NoneSlot
    /\ sensors["CO2_ENS160"]["TVOC"] = ValueSlot(7)
    /\ sensors["CO2_ENS160"]["eCO2"] = ValueSlot(7)

\* C18: with no temperature/humidity sensor among the active sensors, the CO2
\* sensor's compensation fields are 25 and 50 in every state (before, during and
\* after each of its collections, in every cycle).
C18_DefaultCompensationWithoutAHT ==
    ("TEMP_AHT21" \notin Range(current_objects)) =>
       /\ temperature_compensation = 25
       /\ humidity_compensation = 50

\* C18 witness: with the Camera and the CO2 sensor only, the CO2 sensor has
\* collected all its samples of the second cycle.
C18_Witness ==
    /\ current_objects = <<"Camera", "CO2_ENS160">>
    /\ cycle = 2
    /\ pc["ctl"] = "package"
    /\ busOp = "ctl"
    /\ temperature_compensation = 25

\* C19: every accumulator of every sensor holds at most NUM_READINGS samples.
C19_AccumulatorBounded ==
    \A kind \in DOMAIN sensors : \A key \in KeySet(kind) :
       sensors[kind][key].kind = "list" => Len(sensors[kind][key].list) <= NUM_READINGS

\* C19 witness: in the second cycle, after a first cycle in which the CO2 sensor
\* was reset, the sampling rounds have ended with NUM_READINGS samples in a CO2
\* accumulator.
C19_Witness ==
    /\ cycle = 2
    /\ pc["ctl"] = "package"
    /\ pos = 1
    /\ "CO2_ENS160" \in DOMAIN sensors
    /\ sensors["CO2_ENS160"]["eCO2"].kind = "list"
    /\ Len(sensors["CO2_ENS160"]["eCO2"].list) = NUM_READINGS

\* The sensors of a list other than the CO2 sensor, in their order.
WithoutCO2(objs) == SelectSeq(objs, LAMBDA k : k # "CO2_ENS160")

\* C20: after any number of cycles the list holds the sensors _create_objects
\* built, each once; the sensors other than CO2 are in the order they were built
\* in; the list is the built list itself when either sensor is absent or CO2
\* already followed the temperature sensor; and once the first cycle has
\* reordered it, a later cycle leaves the list as it is.
C20_ReorderStableIdempotent ==
    /\ [](/\ Len(current_objects) = Len(created_objects)
          /\ Range(current_objects) = Range(created_objects)
          /\ WithoutCO2(current_objects) = WithoutCO2(created_objects)
          /\ (\/ "TEMP_AHT21" \notin Range(created_objects)
              \/ "CO2_ENS160" \notin Range(created_objects)
              \/ IndexOf(created_objects, "TEMP_AHT21")
                    < IndexOf(created_objects, "CO2_ENS160"))
                => current_objects = created_objects)
    /\ [][cycle >= 1 => current_objects' = current_objects]_vars

\* C20 witness: the list built as CO2, Camera, TEMP, IR has gone through two
\* cycles and is Camera, TEMP, IR, CO2.
C20_Witness ==
    /\ created_objects = <<"CO2_ENS160", "Camera", "TEMP_AHT21", "IR_MLX90614">>
    /\ current_objects = <<"Camera", "TEMP_AHT21", "IR_MLX90614", "CO2_ENS160">>
    /\ cycle = 2

\* C21: for every completion minute and second, the wait _calc_next_reading
\* returns is positive and lies between 60 and 20 * 60 + 59 seconds, and a cycle
\* that completes at the minute and second at which the cycle before completed
\* gets the wait that cycle got.
C21_WaitBoundedAndClockOnly ==
    pc["ctl"] = "return" =>
       /\ next_reading > 0
       /\ next_reading >= 60
       /\ next_reading <= (20 * 60) + 59
       /\ (previous_call # <<>> /\ previous_call[1] = now) =>
             next_reading = previous_call[2]

\* C21 witness: two cycles in a row completed at minute 0, second 59, and both
\* got the longest wait, 1259 seconds.
C21_Witness ==
    /\ pc["ctl"] = "return"
    /\ cycle = 1
    /\ now = <<0, 59>>
    /\ previous_call = <<now, (20 * 60) + 59>>
    /\ next_reading = (20 * 60) + 59

====
